---- MODULE Spec2Model ----
(***************************************************************************)
(* Static (cached-quotient) lookup argument and pairing batcher of         *)
(* sha2-on-cq-halo2.                                                       *)
(*                                                                         *)
(* Group elements are written by their discrete logarithm: a G1 or G2      *)
(* point [a] is the scalar a of the prime field, the group law is the      *)
(* field addition, scalar multiplication is the field multiplication and   *)
(* the pairing e([a]_1, [b]_2) is the product a*b in the (additively       *)
(* written) target group, whose identity is 0.  The scalar field is a      *)
(* small prime field with the 2-adic structure the domains need.           *)
(***************************************************************************)
EXTENDS Integers, Sequences, FiniteSets, TLC

VARIABLES
    batcher,        \* PairingBatcher: g2_to_g2, g2_to_g1, challenge, running_challenge, finalized
    alive,          \* the caller still owns the batcher (finalize takes it by value)
    returned,       \* the Vec returned by finalize (<<>> before)
    panicked,       \* a panic! / unwrap / assert has fired
    calls,          \* history: the slices passed to add_pairing, in order
    finalize_calls, \* history: how many finalize calls returned pairs
    env,            \* the lookup's fixed inputs: SRS secret, tables, witness, challenges
    prover,         \* the lookup prover: stage and the values it holds
    transcript,     \* the proof transcript: the items written, in order (kind and
                    \* value; item names the prover's value, for the history only)
    verifier        \* the lookup verifier: state, values read, read position

vars == <<batcher, alive, returned, panicked, calls, finalize_calls,
          env, prover, transcript, verifier>>

batcherVars == <<batcher, alive, returned, panicked, calls, finalize_calls>>
lookupVars == <<env, prover, transcript, verifier>>

(***************************************************************************)
(* Scalar field                                                            *)
(***************************************************************************)
P == 17

Fp == 0..(P - 1)

FAdd(a, b) == (a + b) % P
FSub(a, b) == (a + P - b) % P
FNeg(a) == (P - a) % P
FMul(a, b) == (a * b) % P
\* invert(): None for zero (callers unwrap)
FInvertible(a) == a % P # 0
FInv(a) == CHOOSE b \in Fp : (a * b) % P = 1

RECURSIVE FPow(_, _)
FPow(a, e) ==
    IF e = 0 THEN 1
    ELSE IF e % 2 = 0 THEN FPow(FMul(a, a), e \div 2)
    ELSE FMul(a, FPow(a, e - 1))

RECURSIVE SumSeq(_)
SumSeq(s) == IF s = <<>> THEN 0 ELSE FAdd(Head(s), SumSeq(Tail(s)))

Range(s) == {s[i] : i \in DOMAIN s}

(***************************************************************************)
(* Pairing engine (external): bilinear map and its multi-Miller-loop form  *)
(***************************************************************************)
Pairing(g1, g2) == FMul(g1, g2)

\* multi_miller_loop followed by final_exponentiation of a list of pairs
MultiPairing(pairs) == SumSeq([i \in DOMAIN pairs |-> Pairing(pairs[i][1], pairs[i][2])])

GtIdentity == 0

(***************************************************************************)
(* PairingBatcher                                                          *)
(***************************************************************************)
\* GroupEncoding::to_bytes: the canonical encoding, here two base-16 digits
to_bytes(g2) == <<g2 % 16, g2 \div 16>>

\* PairingBatcher::new
NewBatcher(challenge) ==
    [ g2_to_g2 |-> <<>>,
      g2_to_g1 |-> <<>>,
      challenge |-> challenge,
      running_challenge |-> 1,
      finalized |-> FALSE ]

MapPut(m, k, v) == [x \in (DOMAIN m) \cup {k} |-> IF x = k THEN v ELSE m[x]]

\* one step of update_mapping's for_each: entry().and_modify(+=).or_insert(), then insert
UpdateEntryOverwrite(b, repr, g1, g2) ==
    [b EXCEPT !.g2_to_g1 = MapPut(b.g2_to_g1, repr, g1),
              !.g2_to_g2 = MapPut(b.g2_to_g2, repr, g2)]

UpdateEntry(b, repr, g1, g2) ==
    [b EXCEPT !.g2_to_g1 = MapPut(b.g2_to_g1, repr,
                                  IF repr \in DOMAIN b.g2_to_g1
                                  THEN FAdd(b.g2_to_g1[repr], g1)
                                  ELSE g1),
              !.g2_to_g2 = MapPut(b.g2_to_g2, repr, g2)]

RECURSIVE update_mapping(_, _, _, _)
update_mapping(b, g2_reprs, g1_points, g2_points) ==
    IF g2_reprs = <<>> THEN b
    ELSE update_mapping(UpdateEntry(b, Head(g2_reprs), Head(g1_points), Head(g2_points)),
                        Tail(g2_reprs), Tail(g1_points), Tail(g2_points))

\* is_present: some G2 of this call is already a key (checked before the update)
IsPresentAfterUpdate(b, g2_reprs) ==
    \/ \E i \in DOMAIN g2_reprs : g2_reprs[i] \in DOMAIN b.g2_to_g1
    \/ \E i, j \in DOMAIN g2_reprs : i # j /\ g2_reprs[i] = g2_reprs[j]

IsPresent(b, g2_reprs) ==
    \E i \in DOMAIN g2_reprs : g2_reprs[i] \in DOMAIN b.g2_to_g1

\* the G1 points of a call that hit a known G2: each scaled by the new running challenge
ScaledOnlySeen(b, pairs, rc) ==
    [i \in DOMAIN pairs |->
        IF to_bytes(pairs[i][2]) \in DOMAIN b.g2_to_g1
        THEN FMul(pairs[i][1], rc) ELSE pairs[i][1]]

ScaledG1(b, pairs, rc) ==
    [i \in DOMAIN pairs |-> FMul(pairs[i][1], rc)]

add_pairing(b, pairs) ==
    LET g2_reprs == [i \in DOMAIN pairs |-> to_bytes(pairs[i][2])]
        is_present == IsPresent(b, g2_reprs)
        g2_points == [i \in DOMAIN pairs |-> pairs[i][2]]
        running_challenge == FMul(b.running_challenge, b.challenge)
        g1_points == IF is_present
                     THEN ScaledG1(b, pairs, running_challenge)
                     ELSE [i \in DOMAIN pairs |-> pairs[i][1]]
        b1 == IF is_present
              THEN [b EXCEPT !.running_challenge = running_challenge]
              ELSE b
    IN  update_mapping(b1, g2_reprs, g1_points, g2_points)

\* what finalize leaves of the batcher: the flag is set and the value is gone
\* (finalize takes `mut self`, so the caller's binding is moved)
FinalizeKeepsBatcher(b, own) == [b |-> b, alive |-> own]
FinalizeBorrowsBatcher(b, own) == [b |-> [b EXCEPT !.finalized = TRUE], alive |-> own]
FinalizeSelf(b, own) == [b |-> [b EXCEPT !.finalized = TRUE], alive |-> FALSE]

\* all orders in which the HashMap may iterate a key set
Orders(keys) ==
    {o \in [1..Cardinality(keys) -> keys] : \A i, j \in DOMAIN o : i # j => o[i] # o[j]}

\* Curve::to_affine / G2Prepared::from: another representation of the same point
to_affine(g) == g % P

(***************************************************************************)
(* The batcher driven by arbitrary callers                                 *)
(***************************************************************************)
MaxCalls == 3

\* statements a caller may submit: lists of (G1, G2) pairs, in the shape of
\* tests::test_bn256_batch_pairing (pairs over the G2 points 1, 2, 3), some
\* pairing to the identity and some not
Statements ==
    { << <<2, 1>>, <<16, 2>> >>,     \* e(2,1) e(-1,2)          = 1
      << <<3, 1>>, <<16, 3>> >>,     \* e(3,1) e(-1,3)          = 1
      << <<1, 2>>, <<15, 1>> >>,     \* e(1,2) e(-2,1)          = 1
      << <<1, 3>>, <<16, 3>> >>,     \* e(1,3) e(-1,3)          = 1, one G2 twice
      << <<1, 1>> >>,                \* e(1,1)                  # 1
      << <<8, 2>> >>,                \* e(8,2) = e(-1,1)        # 1
      << <<1, 1>>, <<1, 3>> >>,      \* e(1,1) e(1,3)           # 1
      << <<1, 2>>, <<1, 2>> >> }     \* e(1,2)^2                # 1, one G2 twice

Idle == [stage |-> "idle"]

InitBatcher ==
    /\ batcher \in {NewBatcher(c) : c \in Fp}
    /\ alive = TRUE
    /\ returned = <<>>
    /\ panicked = FALSE
    /\ calls = <<>>
    /\ finalize_calls = 0
    /\ env = Idle
    /\ prover = Idle
    /\ transcript = <<>>
    /\ verifier = Idle

AddPairing(pairs) ==
    /\ alive
    /\ ~panicked
    /\ Len(calls) < MaxCalls
    /\ batcher' = add_pairing(batcher, pairs)
    /\ calls' = Append(calls, pairs)
    /\ UNCHANGED <<alive, returned, panicked, finalize_calls>>

Finalize ==
    /\ alive
    /\ ~panicked
    /\ IF batcher.finalized
       THEN \* panic!("Batcher is already consumed!")
            /\ panicked' = TRUE
            /\ UNCHANGED <<batcher, alive, returned, finalize_calls>>
       ELSE IF \E k \in DOMAIN batcher.g2_to_g1 : k \notin DOMAIN batcher.g2_to_g2
       THEN \* g2_map.get(g2_repr).unwrap() on None
            /\ panicked' = TRUE
            /\ alive' = FALSE
            /\ UNCHANGED <<batcher, returned, finalize_calls>>
       ELSE \E o \in Orders(DOMAIN batcher.g2_to_g1) :
            /\ returned' = [i \in DOMAIN o |->
                               <<to_affine(batcher.g2_to_g1[o[i]]),
                                 to_affine(batcher.g2_to_g2[o[i]])>>]
            /\ batcher' = FinalizeSelf(batcher, alive).b
            /\ alive' = FinalizeSelf(batcher, alive).alive
            /\ finalize_calls' = finalize_calls + 1
            /\ UNCHANGED panicked
    /\ UNCHANGED calls

CallAddPairing ==
    /\ \E pairs \in Statements : AddPairing(pairs)
    /\ UNCHANGED lookupVars

CallFinalize ==
    /\ Finalize
    /\ UNCHANGED lookupVars

Next ==
    \/ CallAddPairing
    \/ CallFinalize

Spec == InitBatcher /\ [][Next]_vars

(***************************************************************************)
(* What the history of add_pairing calls says, independently of the maps   *)
(***************************************************************************)
StatementHolds(pairs) == MultiPairing(pairs) = GtIdentity

G2Of(pairs) == {pairs[k][2] : k \in DOMAIN pairs}

SeenBefore(i) == UNION {G2Of(calls[j]) : j \in 1..(i - 1)}

\* call i names a G2 point that an earlier call named
Hit(i) == G2Of(calls[i]) \cap SeenBefore(i) # {}

HitsUpTo(i) == Cardinality({j \in 1..i : Hit(j)})

Coef(i) == IF Hit(i) THEN FPow(batcher.challenge, HitsUpTo(i)) ELSE 1

AllG2 == UNION {G2Of(calls[i]) : i \in DOMAIN calls}

\* the contribution of call i to the G1 sum kept for g2
Contribution(i, g2) ==
    SumSeq([k \in DOMAIN calls[i] |->
              IF calls[i][k][2] = g2 THEN FMul(Coef(i), calls[i][k][1]) ELSE 0])

ExpectedSum(g2) == SumSeq([i \in DOMAIN calls |-> Contribution(i, g2)])

\* the batch a session with challenge c builds from a list of statements
RECURSIVE Replay(_, _)
Replay(b, stmts) ==
    IF stmts = <<>> THEN b ELSE Replay(add_pairing(b, Head(stmts)), Tail(stmts))

RECURSIVE SumOver(_, _)
SumOver(b, keys) ==
    IF keys = {} THEN 0
    ELSE LET k == CHOOSE x \in keys : TRUE
         IN  FAdd(Pairing(b.g2_to_g1[k], b.g2_to_g2[k]), SumOver(b, keys \ {k}))

BatchAccepts(c, stmts) ==
    LET b == Replay(NewBatcher(c), stmts)
    IN  SumOver(b, DOMAIN b.g2_to_g1) = GtIdentity

(***************************************************************************)
(* Claims on the batcher                                                   *)
(***************************************************************************)

\* C2: batching soundness. When some submitted statement does not pair to the
\* identity, the finalized batch pairs to the identity for at most N of the
\* challenge values, N the number of statements: a failing statement is not
\* cancelled by another one, with or without a common G2 point.
C2_BatchingSoundness ==
    (finalize_calls > 0 /\ \E i \in DOMAIN calls : ~StatementHolds(calls[i]))
        => Cardinality({c \in Fp : BatchAccepts(c, calls)}) <= Len(calls)

\* C3: batching completeness. When every submitted statement pairs to the
\* identity, the pairs finalize returns pair to the identity, for every
\* challenge and every number of calls.
C3_BatchingCompleteness ==
    (finalize_calls > 0 /\ \A i \in DOMAIN calls : StatementHolds(calls[i]))
        => MultiPairing(returned) = GtIdentity

C3_Witness ==
    /\ finalize_calls > 0
    /\ Len(calls) = 3
    /\ \A i \in DOMAIN calls : StatementHolds(calls[i])
    /\ HitsUpTo(3) = 2
    /\ batcher.challenge \notin {0, 1}
    /\ Len(returned) = 3

\* C4: the scaling rule of add_pairing. running_challenge is challenge^k, k
\* the number of calls that named a G2 point of an earlier call; the G1 points
\* of such a call are all scaled by the running challenge as it is after the
\* call's multiplication, the G1 points of any other call are added unscaled;
\* a G2 point repeated inside one call does not make that call a hit.
C4_ScalingRule ==
    /\ batcher.running_challenge = FPow(batcher.challenge, HitsUpTo(Len(calls)))
    /\ \A g2 \in AllG2 :
          /\ to_bytes(g2) \in DOMAIN batcher.g2_to_g1
          /\ batcher.g2_to_g1[to_bytes(g2)] = ExpectedSum(g2)

C4_Witness ==
    /\ Len(calls) = 3
    /\ Cardinality(G2Of(calls[1])) < Len(calls[1])
    /\ ~Hit(2)
    /\ Hit(3)
    /\ batcher.challenge \notin {0, 1}
    /\ batcher.running_challenge = batcher.challenge

\* C5: finalize returns one pair for each distinct G2 point of the calls and
\* no two pairs with the same G2; the G1 of a pair is the sum accumulated for
\* its G2; the two maps always have the same keys, so the lookup of the G2
\* point in finalize does not fail.
C5_FinalizeDeduplicates ==
    /\ DOMAIN batcher.g2_to_g1 = DOMAIN batcher.g2_to_g2
    /\ ~panicked
    /\ finalize_calls > 0 =>
          /\ {returned[i][2] : i \in DOMAIN returned} = AllG2
          /\ Len(returned) = Cardinality(AllG2)
          /\ \A i \in DOMAIN returned : returned[i][1] = ExpectedSum(returned[i][2])

C5_Witness ==
    /\ finalize_calls > 0
    /\ Len(calls) = 3
    /\ Cardinality(AllG2) = 2
    /\ \E i \in DOMAIN calls : Cardinality(G2Of(calls[i])) < Len(calls[i])
    /\ Len(returned) = 2

\* C6: finalize hands out pairs at most once per batcher: after a finalize,
\* no further finalize returns pairs.
C6_FinalizeOnce ==
    [][finalize_calls >= 1 =>
         (finalize_calls' = finalize_calls /\ returned' = returned)]_vars

C6_Witness ==
    /\ finalize_calls = 1
    /\ batcher.finalized
    /\ ~alive
    /\ Len(returned) >= 1

S == 4
ROOT_OF_UNITY == 3

VLen(v) == Cardinality(DOMAIN v)

\* a Vec whose elements are computed once, when it is built
Vec(f) == f @@ <<>>

RECURSIVE Pow2(_)
Pow2(k) == IF k = 0 THEN 1 ELSE 2 * Pow2(k - 1)

\* (usize::BITS - 1) - x.leading_zeros(), for x >= 1
RECURSIVE log2(_)
log2(x) == IF x <= 1 THEN 0 ELSE 1 + log2(x \div 2)

\* EvaluationDomain::get_omega: ROOT_OF_UNITY squared S - k times
Omega(k) == FPow(ROOT_OF_UNITY, Pow2(S - k))

RECURSIVE SumTo(_, _)
\* v[0] + ... + v[n-1]
SumTo(v, n) == IF n = 0 THEN 0 ELSE FAdd(v[n - 1], SumTo(v, n - 1))

VSum(v) == SumTo(v, VLen(v))

\* EvaluationDomain::ifft with omega_inv and ifft_divisor of the 2^k domain:
\* the coefficients of the polynomial with the given values at the roots
Ifft(vals, k) ==
    LET n == Pow2(k)
        w_inv == FInv(Omega(k))
        divisor == FInv(n % P)
    IN  Vec([j \in 0..(n - 1) |->
            FMul(divisor, VSum([i \in 0..(n - 1) |-> FMul(vals[i], FPow(w_inv, i * j))]))])

\* arithmetic::eval_polynomial
eval_polynomial(poly, x) == VSum([j \in DOMAIN poly |-> FMul(poly[j], FPow(x, j))])

\* arithmetic::best_multiexp(coeffs, bases), bases[j] taken at offset off
Multiexp(coeffs, bases, off) ==
    VSum([j \in DOMAIN coeffs |-> FMul(coeffs[j], bases[off + j])])

\* arithmetic::kate_division(a, g): the quotient of a(X) - a(g) by X - g
kate_division(a, g) ==
    LET d == VLen(a) - 1
    IN  Vec([k \in 0..(d - 1) |->
            VSum([j \in 0..(d - k - 1) |-> FMul(a[k + 1 + j], FPow(g, j))])])

(***************************************************************************)
(* SRS and commitment parameters, from the toxic waste s                   *)
(***************************************************************************)
\* SRS::setup_from_toxic_waste(max_g1_power, max_g2_power, s)
SRS_setup(max_g1_power, max_g2_power, s) ==
    LET g1_len == max_g1_power + 1
        g2_len == max_g2_power + 1
        root == Omega(log2(g1_len))
        n_inv == FInv(g1_len % P)
        multiplier == FMul(FSub(FPow(s, g1_len), 1), n_inv)
        g1_lagrange == Vec([i \in 0..(g1_len - 1) |->
                              FMul(FMul(multiplier, FPow(root, i)),
                                   FInv(FSub(s, FPow(root, i))))])
        last_power_scaled == FMul(FPow(s, g1_len - 1), n_inv)
    IN  [ g1 |-> Vec([j \in 0..(g1_len - 1) |-> FPow(s, j)]),
          g2 |-> [j \in 0..(g2_len - 1) |-> FPow(s, j)],
          g1_lagrange |-> g1_lagrange,
          g_lagrange_minus_lagrange_0 |->
              [i \in 0..(g1_len - 1) |->
                  FSub(FMul(g1_lagrange[i], FInv(FPow(root, i))), last_power_scaled)] ]

\* ParamsKZG::setup_from_toxic_waste(k, s)
ParamsKZG_setup(k, s) ==
    LET n == Pow2(k)
        root == Omega(k)
        n_inv == FInv(n % P)
        multiplier == FMul(FSub(FPow(s, n), 1), n_inv)
    IN  [ k |-> k,
          n |-> n,
          g |-> [j \in 0..(n - 1) |-> FPow(s, j)],
          g_lagrange |-> [i \in 0..(n - 1) |->
                            FMul(FMul(multiplier, FPow(root, i)),
                                 FInv(FSub(s, FPow(root, i))))],
          g2 |-> 1,
          s_g2 |-> FMul(1, s) ]

(***************************************************************************)
(* Static tables                                                           *)
(***************************************************************************)
\* BTreeMap<Scalar, usize> collected from (value, row): a later row with the
\* same value replaces the earlier one
ValueIndexMappingFromOne(values) ==
    [v \in {values[i] : i \in DOMAIN values} |->
        1 + CHOOSE i \in DOMAIN values :
                values[i] = v /\ \A j \in DOMAIN values : values[j] = v => j <= i]

ValueIndexMapping(values) ==
    [v \in {values[i] : i \in DOMAIN values} |->
        CHOOSE i \in DOMAIN values :
            values[i] = v /\ \A j \in DOMAIN values : values[j] = v => j <= i]

\* the keys of a BTreeMap in iteration order (Ord of the field: by canonical integer)
RECURSIVE SortedKeys(_)
SortedKeys(keys) ==
    IF keys = {} THEN <<>>
    ELSE LET m == CHOOSE x \in keys : \A y \in keys : x <= y
         IN  <<m>> \o SortedKeys(keys \ {m})

\* a Vec from a sequence
ToVec(seq) == Vec([i \in 0..(Len(seq) - 1) |-> seq[i + 1]])

\* usize and u32, cut to 16 bits
WordBits == 16

\* x - y on a word: the wrapped difference, and whether it left the range
wrapping_sub(x, y) == (x - y) % Pow2(WordBits)

RECURSIVE BitAnd(_, _)
BitAnd(a, b) ==
    IF a = 0 \/ b = 0 THEN 0
    ELSE (a % 2) * (b % 2) + 2 * BitAnd(a \div 2, b \div 2)

\* is_pow_2(x) == (x & (x - 1)) == 0: x - 1 panics when overflow checks are
\* compiled in (debug build) and wraps when they are not (release build)
is_pow_2(x, overflow_checks) ==
    IF x - 1 < 0 /\ overflow_checks
    THEN [panic |-> TRUE, overflow |-> TRUE, value |-> FALSE]
    ELSE [panic |-> FALSE, overflow |-> x - 1 < 0,
          value |-> BitAnd(x, wrapping_sub(x, 1)) = 0]

\* x.leading_zeros() of a word
leading_zeros(x) == IF x = 0 THEN WordBits ELSE WordBits - 1 - log2(x)

\* log2(x) == (usize::BITS - 1) - x.leading_zeros(), with the same two builds
log2_word(x, overflow_checks) ==
    LET d == (WordBits - 1) - leading_zeros(x)
    IN  IF d < 0 /\ overflow_checks
        THEN [panic |-> TRUE, overflow |-> TRUE, value |-> 0]
        ELSE [panic |-> FALSE, overflow |-> d < 0, value |-> d % Pow2(WordBits)]

\* value_index_mapping.keys().len()
KeysLenByLastIndex(value_index_mapping) ==
    IF DOMAIN value_index_mapping = {} THEN 0
    ELSE 1 + CHOOSE i \in Range(value_index_mapping) :
                 \A j \in Range(value_index_mapping) : j <= i

KeysLen(value_index_mapping) == Cardinality(DOMAIN value_index_mapping)

\* best_multiexp on `threads` worker threads: the terms are cut into chunks of
\* len / threads terms, every chunk is summed on its own and the chunk sums
\* are added; with no more terms than threads the sum is computed serially
ChunkSum(coeffs, bases, from, to) ==
    VSum([j \in 0..(to - from) |-> FMul(coeffs[from + j], bases[from + j])])

best_multiexp_first_chunks(coeffs, bases, threads) ==
    LET len == VLen(coeffs)
        chunk == len \div threads
    IN  IF len <= threads THEN ChunkSum(coeffs, bases, 0, len - 1)
        ELSE VSum([c \in 0..(threads - 1) |->
                     ChunkSum(coeffs, bases, c * chunk, c * chunk + chunk - 1)])

best_multiexp(coeffs, bases, threads) ==
    LET len == VLen(coeffs)
        chunk == len \div threads
        chunks == (len + chunk - 1) \div chunk
    IN  IF len <= threads THEN ChunkSum(coeffs, bases, 0, len - 1)
        ELSE VSum([c \in 0..(chunks - 1) |->
                     ChunkSum(coeffs, bases, c * chunk,
                              IF c * chunk + chunk - 1 < len - 1
                              THEN c * chunk + chunk - 1 ELSE len - 1)])

\* StaticTableValues::new(values, srs_g1) in a process with `threads` worker
\* threads; ok = FALSE when an assert or unwrap fires
StaticTableValues_new_on(values, srs_g1, overflow_checks, threads) ==
    LET size == VLen(values)
        pow2 == is_pow_2(size, overflow_checks)
        value_index_mapping == ValueIndexMapping(values)
        keys_len == KeysLen(value_index_mapping)
        n_inv == FInv(size % P)
        w == Omega(log2(size))
        roots_of_unity == [i \in 0..(size - 1) |-> FPow(w, i)]
        table_coeffs == Ifft(values, log2(size))
        qs == [i \in 0..(size - 1) |->
                 LET g_i == roots_of_unity[i]
                     quotient == kate_division(table_coeffs, g_i)
                     scaled == Vec([j \in DOMAIN quotient |->
                                      FMul(FMul(quotient[j], g_i), n_inv)])
                 IN  best_multiexp(scaled, srs_g1, threads)]
    IN  IF pow2.panic
        THEN [ok |-> FALSE, err |-> "attempt to subtract with overflow"]
        ELSE IF ~pow2.value
        THEN [ok |-> FALSE, err |-> "assert!(is_pow_2(size))"]
        ELSE IF size # keys_len
        THEN [ok |-> FALSE, err |-> "assert_eq!(size, keys_len)"]
        ELSE IF log2_word(size, overflow_checks).panic
        THEN [ok |-> FALSE, err |-> "attempt to subtract with overflow"]
        ELSE IF ~FInvertible(size % P)
        THEN \* an empty table in a release build: the domain of 2^log2(0) rows
             \* cannot be built and n = 0 has no inverse
             [ok |-> FALSE, err |-> "n.invert().unwrap()"]
        ELSE [ ok |-> TRUE,
               size |-> size,
               value_index_mapping |-> value_index_mapping,
               values |-> values,
               qs |-> qs ]

\* StaticTableValues::new(values, srs_g1) on one thread
StaticTableValues_new(values, srs_g1, overflow_checks) ==
    StaticTableValues_new_on(values, srs_g1, overflow_checks, 1)

\* a - b on usize: the panic of a build with overflow checks, the wrapped
\* difference of a build without
checked_sub(a, b, overflow_checks) ==
    [ panic |-> a - b < 0 /\ overflow_checks,
      overflow |-> a - b < 0,
      value |-> wrapping_sub(a, b) ]

\* b0_bound_index = srs_g1_len - 1 - (circuit_domain - 2), left to right
B0BoundIndex(srs_g1_len, circuit_domain, overflow_checks) ==
    LET a == checked_sub(srs_g1_len, 1, overflow_checks)
        b == checked_sub(circuit_domain, 2, overflow_checks)
        c == checked_sub(a.value, b.value, overflow_checks)
    IN  [ panic |-> a.panic \/ b.panic \/ c.panic,
          overflow |-> a.overflow \/ b.overflow \/ c.overflow,
          value |-> c.value ]

\* the size commit records in the StaticCommittedTable
CommittedSize(self, srs_g1_len) == srs_g1_len

\* the evaluations commit interpolates: value_index_mapping.keys(), ascending
CommitEvaluationsOfIndices(self) == ToVec(SortedKeys(Range(self.value_index_mapping)))

CommitEvaluations(self) == ToVec(SortedKeys(DOMAIN self.value_index_mapping))

\* StaticTableValues::commit(srs_g1_len, srs_g2, circuit_domain); ok = FALSE
\* when a subtraction or an index panics
StaticTableValues_commit(self, srs_g1_len, srs_g2, circuit_domain, overflow_checks) ==
    LET zv == FSub(srs_g2[self.size], srs_g2[0])
        table_coeffs == Ifft(CommitEvaluations(self), log2(self.size))
        t == Multiexp(table_coeffs, srs_g2, 0)
        b0_bound_index == B0BoundIndex(srs_g1_len, circuit_domain, overflow_checks)
    IN  IF self.size \notin DOMAIN srs_g2
        THEN [ok |-> FALSE, err |-> "index out of bounds", index |-> self.size]
        ELSE IF b0_bound_index.panic
        THEN [ok |-> FALSE, err |-> "attempt to subtract with overflow", index |-> 0]
        ELSE IF b0_bound_index.value \notin DOMAIN srs_g2
        THEN [ok |-> FALSE, err |-> "index out of bounds", index |-> b0_bound_index.value]
        ELSE [ ok |-> TRUE,
               zv |-> zv,
               t |-> t,
               x_b0_bound |-> srs_g2[b0_bound_index.value],
               size |-> CommittedSize(self, srs_g1_len) ]

(***************************************************************************)
(* Keys and inputs of one proof with one static lookup                     *)
(***************************************************************************)
\* circuit domain 2^K rows; cs.blinding_factors()
K == 2
BlindingFactors == 1

\* the tables of the end-to-end tests, cut to 8 rows: table, its companion
\* table_2 (row-aligned with table), and a table whose rows are not ascending
TableRows ==
    [ table   |-> ToVec(<<0, 1, 6, 8, 10, 12, 14, 16>>),
      table_2 |-> ToVec(<<0, 2, 3, 4, 5, 6, 7, 8>>),
      table_3 |-> ToVec(<<5, 3, 0, 1, 6, 8, 10, 12>>) ]

TableIdLists == { <<"table">>, <<"table", "table_2">>, <<"table_3">> }

Secrets == {3, 5}
Thetas == {2, 5}
Betas == {0, 1, 3}
Xs == {6}
BatchChallenges == {2}
Blinds == {9}

UsableRows(n) == n - (BlindingFactors + 1)

\* the table rows a witness looks up: the first, an inner and the last one
WitnessRows == {0, 2, 7}

\* a value that is in no row of the table
AbsentValue(id) == CHOOSE v \in Fp : \A i \in DOMAIN TableRows[id] : TableRows[id][i] # v

\* the cells a witness may put in one usable row, one value per lookup column:
\* a common table row, and for the cases commit rejects a value absent from
\* its table or two columns at different rows
RowCells(ids) ==
    LET size == VLen(TableRows[ids[1]])
        common == {[c \in DOMAIN ids |-> TableRows[ids[c]][i]] : i \in WitnessRows}
        absent == {[c \in DOMAIN ids |->
                      IF c = d THEN AbsentValue(ids[c]) ELSE TableRows[ids[c]][0]]
                   : d \in DOMAIN ids}
        shifted == IF Len(ids) < 2 THEN {}
                   ELSE {[c \in DOMAIN ids |->
                            TableRows[ids[c]][IF c = 1 THEN i ELSE (i + 1) % size]]
                         : i \in {0, 3}}
    IN  common \cup absent \cup shifted

\* advice columns (one per lookup column) of n rows: the chosen cells on the
\* usable rows, random blinding values below them
AdviceColumns(ids, cells, blind, n) ==
    [c \in DOMAIN ids |->
        [row \in 0..(n - 1) |->
            IF row < UsableRows(n) THEN cells[row][c] ELSE blind]]

\* test setup: TableSRS::setup_from_toxic_waste(size - 1, size, s), generate_table,
\* ParamsKZG::setup_from_toxic_waste(K, s), StaticTableConfig::new, keygen_vk, keygen_pk
Setup(s, ids, cells, blind, theta, beta, x, challenge) ==
    LET n == Pow2(K)
        size == VLen(TableRows[ids[1]])
        table_srs == SRS_setup(size - 1, size, s)
        params == ParamsKZG_setup(K, s)
        opened == [id \in DOMAIN TableRows |->
                      StaticTableValues_new(TableRows[id], table_srs.g1, TRUE)]
        committed == [id \in DOMAIN TableRows |->
                         StaticTableValues_commit(opened[id], VLen(table_srs.g1),
                                                  table_srs.g2, n, TRUE)]
    IN  [ stage |-> "ready",
          params |-> params,
          table_ids |-> ids,
          advice |-> AdviceColumns(ids, cells, blind, n),
          blinding_factors |-> BlindingFactors,
          pk |-> [ static_table_mapping |-> opened,
                   static_table_configs |->
                       [sz \in {size} |->
                           [ size |-> size,
                             g1_lagrange |-> table_srs.g1_lagrange,
                             g_lagrange_opening_at_0 |->
                                 table_srs.g_lagrange_minus_lagrange_0 ]],
                   \* table_srs.g1()[((1 << K) + 1)..]
                   b0_g1_bound |-> [j \in 0..(VLen(table_srs.g1) - (n + 1) - 1) |->
                                       table_srs.g1[n + 1 + j]] ],
          vk |-> [ static_table_mapping |-> committed ],
          theta |-> theta,
          beta |-> beta,
          x |-> x,
          challenge |-> challenge ]

(***************************************************************************)
(* Lookup prover                                                           *)
(***************************************************************************)
\* compress_expressions: fold(empty_lagrange, |acc, e| acc * theta + e)
RECURSIVE CompressColumns(_, _, _, _)
CompressColumns(cols, upto, theta, n) ==
    IF upto = 0 THEN [row \in 0..(n - 1) |-> 0]
    ELSE LET acc == CompressColumns(cols, upto - 1, theta, n)
         IN  Vec([row \in 0..(n - 1) |-> FAdd(FMul(acc[row], theta), cols[upto][row])])

\* the inner loop of commit for one row: the common table row, or the panic
RECURSIVE ResolveRowSkipsAbsent(_, _, _, _, _)
ResolveRowSkipsAbsent(evals, tables, row, c, idx) ==
    IF c > Len(tables) THEN [ok |-> idx # -1, index |-> idx, err |-> "Lookup failed"]
    ELSE LET fi == evals[c][row]
             map == tables[c].value_index_mapping
         IN  IF fi \notin DOMAIN map
             THEN ResolveRowSkipsAbsent(evals, tables, row, c + 1, idx)
             ELSE IF idx # -1 /\ idx # map[fi]
             THEN [ok |-> FALSE, index |-> -1, err |-> "InconsistentVectorLookup"]
             ELSE ResolveRowSkipsAbsent(evals, tables, row, c + 1, map[fi])

RECURSIVE ResolveRowKeepsLast(_, _, _, _, _)
ResolveRowKeepsLast(evals, tables, row, c, idx) ==
    IF c > Len(tables) THEN [ok |-> idx # -1, index |-> idx, err |-> "Lookup failed"]
    ELSE LET fi == evals[c][row]
             map == tables[c].value_index_mapping
         IN  IF fi \notin DOMAIN map
             THEN [ok |-> FALSE, index |-> -1, err |-> "LookupValueNotFound"]
             ELSE ResolveRowKeepsLast(evals, tables, row, c + 1, map[fi])

RECURSIVE ResolveRow(_, _, _, _, _)
ResolveRow(evals, tables, row, c, idx) ==
    IF c > Len(tables) THEN [ok |-> idx # -1, index |-> idx, err |-> "Lookup failed"]
    ELSE LET fi == evals[c][row]
             map == tables[c].value_index_mapping
         IN  IF fi \notin DOMAIN map
             THEN [ok |-> FALSE, index |-> -1, err |-> "LookupValueNotFound"]
             ELSE IF idx # -1 /\ idx # map[fi]
             THEN [ok |-> FALSE, index |-> -1, err |-> "InconsistentVectorLookup"]
             ELSE ResolveRow(evals, tables, row, c + 1, map[fi])

Failed(err) == [ok |-> FALSE, err |-> err]

\* m_sparse: entry(index).or_insert(zero) += one, for every usable row
MultiplicitiesSetOnce(rows) ==
    [index \in {rows[row].index : row \in DOMAIN rows} |-> 1]

Multiplicities(rows) ==
    [index \in {rows[row].index : row \in DOMAIN rows} |->
        Cardinality({row \in DOMAIN rows : rows[row].index = index}) % P]

\* Argument::commit
Argument_commit(e) ==
    LET n == e.params.n
        unregistered == {c \in DOMAIN e.table_ids :
                            e.table_ids[c] \notin DOMAIN e.pk.static_table_mapping}
        tables == [c \in DOMAIN e.table_ids |-> e.pk.static_table_mapping[e.table_ids[c]]]
        table_config == e.pk.static_table_configs[tables[1].size]
        evaluated_expressions == e.advice
        f == CompressColumns(evaluated_expressions, Len(evaluated_expressions), e.theta, n)
        usable_rows == n - (e.blinding_factors + 1)
        rows == [row \in 0..(usable_rows - 1) |->
                    ResolveRow(evaluated_expressions, tables, row, 1, -1)]
        bad == {row \in DOMAIN rows : ~rows[row].ok}
        first_bad == CHOOSE row \in bad : \A r \in bad : row <= r
        m_sparse == Multiplicities(rows)
        f_cm == Multiexp(f, e.params.g_lagrange, 0)
        m_cm == VSum([index \in 0..(table_config.size - 1) |->
                        IF index \in DOMAIN m_sparse
                        THEN FMul(table_config.g1_lagrange[index], m_sparse[index])
                        ELSE 0])
    IN  IF unregistered # {} THEN Failed("Key not exists")
        ELSE IF \E c \in DOMAIN tables : tables[c].size # tables[1].size
        THEN Failed("Tables should all be of the same size")
        ELSE IF tables[1].size \notin DOMAIN e.pk.static_table_configs
        THEN Failed("Config does not exists")
        ELSE IF bad # {} THEN Failed(rows[first_bad].err)
        ELSE [ ok |-> TRUE,
               f |-> f,
               m_sparse |-> m_sparse,
               table_ids |-> e.table_ids,
               writes |-> << [kind |-> "point", v |-> f_cm, item |-> "f"],
                             [kind |-> "point", v |-> m_cm, item |-> "m"] >> ]

\* compress_tables(index): the theta-fold of the tables' values and quotients at a row
RECURSIVE compress_tables_last_first(_, _, _, _)
compress_tables_last_first(tables, upto, theta, index) ==
    IF upto = 0 THEN [values |-> 0, qs |-> 0]
    ELSE LET acc == compress_tables_last_first(tables, upto - 1, theta, index)
         IN  [ values |-> FAdd(acc.values,
                               FMul(FPow(theta, upto - 1), tables[upto].values[index])),
               qs |-> FAdd(acc.qs, FMul(FPow(theta, upto - 1), tables[upto].qs[index])) ]

RECURSIVE compress_tables(_, _, _, _)
compress_tables(tables, upto, theta, index) ==
    IF upto = 0 THEN [values |-> 0, qs |-> 0]
    ELSE LET acc == compress_tables(tables, upto - 1, theta, index)
         IN  [ values |-> FAdd(FMul(acc.values, theta), tables[upto].values[index]),
               qs |-> FAdd(FMul(acc.qs, theta), tables[upto].qs[index]) ]

\* the evaluations of B: 1/(f_i + beta) on the usable rows, 1/beta below
LogDerivativeBsOnAllRows(f, beta, usable_rows, n) ==
    Vec([i \in 0..(n - 1) |-> FInv(FAdd(f[i], beta))])

LogDerivativeBs(f, beta, usable_rows, n) ==
    Vec([i \in 0..(n - 1) |->
        IF i < usable_rows THEN FInv(FAdd(f[i], beta)) ELSE FInv(beta)])

\* a_at_zero: (b_at_zero * n - (blinding_factors + 1) * beta_inv) * n_table_inv
SumcheckAtZeroNoSelectorRow(b_at_zero, n, blinding_factors, beta_inv, table_size) ==
    FMul(FSub(FMul(b_at_zero, n % P), FMul(blinding_factors % P, beta_inv)),
         FInv(table_size % P))

SumcheckAtZero(b_at_zero, n, blinding_factors, beta_inv, table_size) ==
    FMul(FSub(FMul(b_at_zero, n % P), FMul(FAdd(blinding_factors % P, 1), beta_inv)),
         FInv(table_size % P))

\* Committed::commit_log_derivatives
Committed_commit_log_derivatives(self, e) ==
    LET tables == [c \in DOMAIN self.table_ids |->
                      e.pk.static_table_mapping[self.table_ids[c]]]
        table_config == e.pk.static_table_configs[tables[1].size]
        beta == e.beta
        theta == e.theta
        n == Pow2(e.params.k)
        f_set == {self.f[i] : i \in DOMAIN self.f}
        compressed == Vec([index \in DOMAIN self.m_sparse |->
                              compress_tables(tables, Len(tables), theta, index)])
        a == Vec([index \in DOMAIN self.m_sparse |->
                     FMul(self.m_sparse[index], FInv(FAdd(compressed[index].values, beta)))])
        Acc(bases) == VSum([index \in 0..(table_config.size - 1) |->
                              IF index \in DOMAIN self.m_sparse
                              THEN FMul(bases[index], a[index]) ELSE 0])
        a_cm == Acc(table_config.g1_lagrange)
        qa_cm == Acc([index \in 0..(table_config.size - 1) |->
                         IF index \in DOMAIN self.m_sparse
                         THEN compressed[index].qs ELSE 0])
        a0_cm == Acc(table_config.g_lagrange_opening_at_0)
        blinding_factors == e.blinding_factors
        usable_rows == e.params.n - (blinding_factors + 1)
        beta_inv == FInv(beta)
        bs == Ifft(LogDerivativeBs(self.f, beta, usable_rows, n), e.params.k)
        b0_poly_coeffs == Vec([j \in 0..(n - 2) |-> bs[j + 1]])
        p_cm == Multiexp(b0_poly_coeffs, e.pk.b0_g1_bound, 0)
        b0_poly == Vec([j \in 0..(n - 1) |-> IF j < n - 1 THEN b0_poly_coeffs[j] ELSE 0])
        b0_cm == Multiexp(b0_poly, e.params.g, 0)
        b_at_zero == eval_polynomial(bs, 0)
        a_at_zero == SumcheckAtZero(b_at_zero, n, blinding_factors, beta_inv,
                                    table_config.size)
        \* the first entry of m_sparse (BTreeMap order) at which the loop panics
        stuck == {index \in DOMAIN self.m_sparse :
                     \/ ~FInvertible(FAdd(compressed[index].values, beta))
                     \/ compressed[index].values \notin f_set}
        first_stuck == CHOOSE index \in stuck : \A other \in stuck : index <= other
    IN  IF stuck # {}
        THEN IF ~FInvertible(FAdd(compressed[first_stuck].values, beta))
             THEN Failed("invert().unwrap()")
             ELSE Failed("assert!(f_set.get(&table_values).is_some())")
        ELSE IF \E i \in 0..(usable_rows - 1) : ~FInvertible(FAdd(self.f[i], beta))
        THEN Failed("invert().unwrap()")
        ELSE IF ~FInvertible(beta)
        THEN Failed("invert().unwrap()")
        ELSE IF VLen(b0_poly_coeffs) # VLen(e.pk.b0_g1_bound)
        THEN Failed("best_multiexp: assert_eq!(coeffs.len(), bases.len())")
        ELSE [ ok |-> TRUE,
               b |-> bs,
               b0 |-> b0_poly,
               f |-> Ifft(self.f, e.params.k),
               a_at_zero |-> a_at_zero,
               writes |-> << [kind |-> "point", v |-> a_cm, item |-> "a"],
                             [kind |-> "point", v |-> qa_cm, item |-> "qa"],
                             [kind |-> "point", v |-> a0_cm, item |-> "a0"],
                             [kind |-> "point", v |-> b0_cm, item |-> "b0"],
                             [kind |-> "point", v |-> p_cm, item |-> "p"] >> ]

\* CommittedLogDerivative::evaluate (prover)
ProverEvaluateWrites(self, x) ==
    LET b0_eval == eval_polynomial(self.b0, x)
        f_eval == eval_polynomial(self.f, x)
    IN  << [kind |-> "scalar", v |-> b0_eval, item |-> "b0_eval"],
           [kind |-> "scalar", v |-> f_eval, item |-> "f_eval"],
           [kind |-> "scalar", v |-> self.a_at_zero, item |-> "a_at_zero"] >>

InitLookup ==
    /\ \E s \in Secrets, ids \in TableIdLists, theta \in Thetas, beta \in Betas,
          x \in Xs, challenge \in BatchChallenges, blind \in Blinds :
          \E cells \in [0..(UsableRows(Pow2(K)) - 1) -> RowCells(ids)] :
             /\ env = Setup(s, ids, cells, blind, theta, beta, x, challenge)
             /\ batcher = NewBatcher(challenge)
    /\ alive = TRUE
    /\ returned = <<>>
    /\ panicked = FALSE
    /\ calls = <<>>
    /\ finalize_calls = 0
    /\ prover = [stage |-> "start"]
    /\ transcript = <<>>
    /\ verifier = [ state |-> "Uncommitted", value |-> <<>>, pos |-> 0,
                    read |-> <<>>, done |-> <<>>, queries |-> <<>>,
                    expressions |-> [called |-> FALSE, result |-> <<>>] ]

\* create_proof: lookup.commit(...) for the static lookup
ProverCommit ==
    /\ prover.stage = "start"
    /\ LET r == Argument_commit(env)
       IN  IF r.ok
           THEN /\ prover' = [stage |-> "committed", f |-> r.f, m_sparse |-> r.m_sparse,
                              table_ids |-> r.table_ids]
                /\ transcript' = transcript \o r.writes
           ELSE /\ prover' = [stage |-> "failed", err |-> r.err]
                /\ UNCHANGED transcript
    /\ UNCHANGED <<env, verifier, batcherVars>>

\* create_proof: static_lookup.commit_log_derivatives(...)
ProverCommitLogDerivatives ==
    /\ prover.stage = "committed"
    /\ LET r == Committed_commit_log_derivatives(prover, env)
       IN  IF r.ok
           THEN /\ prover' = [stage |-> "log_derivative", b |-> r.b, b0 |-> r.b0,
                              f |-> r.f, a_at_zero |-> r.a_at_zero,
                              m_sparse |-> prover.m_sparse, f_lagrange |-> prover.f]
                /\ transcript' = transcript \o r.writes
           ELSE /\ prover' = [stage |-> "failed", err |-> r.err]
                /\ UNCHANGED transcript
    /\ UNCHANGED <<env, verifier, batcherVars>>

\* create_proof: lookup.evaluate(pk, x, transcript)
ProverEvaluate ==
    /\ prover.stage = "log_derivative"
    /\ prover' = [prover EXCEPT !.stage = "evaluated"]
    /\ transcript' = transcript \o ProverEvaluateWrites(prover, env.x)
    /\ UNCHANGED <<env, verifier, batcherVars>>

(***************************************************************************)
(* Lookup verifier                                                         *)
(***************************************************************************)
\* TranscriptRead::read_point / read_scalar at a position of the proof
ReadItem(t, pos, kind) ==
    IF pos + 1 > Len(t) \/ t[pos + 1].kind # kind
    THEN [ok |-> FALSE]
    ELSE [ok |-> TRUE, v |-> t[pos + 1].v]

\* Argument::read_committed; table_id is the table the argument names
Argument_read_committed(table_id, t, pos) ==
    LET f == ReadItem(t, pos, "point")
        m == ReadItem(t, pos + 1, "point")
    IN  IF ~f.ok \/ ~m.ok THEN [ok |-> FALSE]
        ELSE [ ok |-> TRUE,
               state |-> "CommittedWitness",
               value |-> [f |-> f.v, m |-> m.v, table_id |-> table_id],
               read |-> <<"f", "m">> ]

\* CommittedWitness::read_committed_log_derivative
ReadLogDerivativeSkipsEvaluate(self, t, pos) ==
    LET item == [j \in 0..4 |-> ReadItem(t, pos + j, "point")]
    IN  IF \E j \in 0..4 : ~item[j].ok THEN [ok |-> FALSE]
        ELSE [ ok |-> TRUE,
               state |-> "Evaluated",
               value |-> [ committed |-> [ committed_witness |-> self,
                                           a |-> item[0].v, qa |-> item[1].v,
                                           a0 |-> item[2].v, b0 |-> item[3].v,
                                           p |-> item[4].v ],
                           b0_eval |-> 0, f_eval |-> 0, a_at_zero |-> 0 ],
               read |-> <<"a", "qa", "a0", "b0", "p">> ]

ReadLogDerivativeQaFirst(self, t, pos) ==
    LET item == [j \in 0..4 |-> ReadItem(t, pos + j, "point")]
    IN  IF \E j \in 0..4 : ~item[j].ok THEN [ok |-> FALSE]
        ELSE [ ok |-> TRUE,
               state |-> "CommittedLogDerivative",
               value |-> [ committed_witness |-> self,
                           qa |-> item[0].v, a |-> item[1].v, a0 |-> item[2].v,
                           b0 |-> item[3].v, p |-> item[4].v ],
               read |-> <<"qa", "a", "a0", "b0", "p">> ]

CommittedWitness_read_committed_log_derivative(self, t, pos) ==
    LET item == [j \in 0..4 |-> ReadItem(t, pos + j, "point")]
    IN  IF \E j \in 0..4 : ~item[j].ok THEN [ok |-> FALSE]
        ELSE [ ok |-> TRUE,
               state |-> "CommittedLogDerivative",
               value |-> [ committed_witness |-> self,
                           a |-> item[0].v, qa |-> item[1].v, a0 |-> item[2].v,
                           b0 |-> item[3].v, p |-> item[4].v ],
               read |-> <<"a", "qa", "a0", "b0", "p">> ]

\* CommittedLogDerivative::evaluate (verifier)
CommittedLogDerivative_evaluate(self, t, pos) ==
    LET b0_eval == ReadItem(t, pos, "scalar")
        f_eval == ReadItem(t, pos + 1, "scalar")
        a_at_zero == ReadItem(t, pos + 2, "scalar")
    IN  IF ~b0_eval.ok \/ ~f_eval.ok \/ ~a_at_zero.ok THEN [ok |-> FALSE]
        ELSE [ ok |-> TRUE,
               state |-> "Evaluated",
               value |-> [ committed |-> self,
                           b0_eval |-> b0_eval.v,
                           f_eval |-> f_eval.v,
                           a_at_zero |-> a_at_zero.v ],
               read |-> <<"b0_eval", "f_eval", "a_at_zero">> ]

\* Evaluated::register_pairings: the slices it passes to add_pairing, in order
Evaluated_register_pairings(self, vk, params, beta) ==
    LET table == vk.static_table_mapping[self.committed.committed_witness.table_id]
        m_minus_beta_a == FSub(self.committed.committed_witness.m,
                               FMul(self.committed.a, beta))
        a_at_zero_cm == FMul(1, self.a_at_zero)
    IN  << << <<self.committed.a, table.t>>,
              <<FNeg(self.committed.qa), table.zv>>,
              <<FNeg(m_minus_beta_a), params.g2>>,
              <<self.committed.b0, table.x_b0_bound>>,
              <<FNeg(self.committed.p), params.g2>>,
              <<FSub(self.committed.a, a_at_zero_cm), params.g2>>,
              <<FNeg(self.committed.a0), params.s_g2>> >> >>

\* Evaluated::queries
Evaluated_queries(self, x) ==
    << [commitment |-> self.committed.b0, point |-> x, eval |-> self.b0_eval],
       [commitment |-> self.committed.committed_witness.f, point |-> x,
        eval |-> self.f_eval] >>

RECURSIVE AddPairings(_, _)
AddPairings(b, slices) ==
    IF slices = <<>> THEN b
    ELSE AddPairings(add_pairing(b, Head(slices)), Tail(slices))

\* the verifier is handed the finished proof
ProofComplete == prover.stage = "evaluated"

\* what a read leaves of the verifier: the next typestate, or the Err
AfterRead(r, op) ==
    IF r.ok
    THEN [ verifier EXCEPT !.state = r.state,
                           !.value = r.value,
                           !.pos = verifier.pos + Len(r.read),
                           !.read = verifier.read \o r.read,
                           !.done = Append(verifier.done, op) ]
    ELSE [ verifier EXCEPT !.state = "Err",
                           !.value = <<>>,
                           !.done = Append(verifier.done, op) ]

\* verify_proof: argument.read_committed(transcript)
VerifierReadCommitted ==
    /\ ProofComplete
    /\ verifier.state = "Uncommitted"
    /\ \E table_id \in Range(env.table_ids) :
          verifier' = AfterRead(Argument_read_committed(table_id, transcript, verifier.pos),
                                "read_committed")
    /\ UNCHANGED <<env, prover, transcript, batcherVars>>

\* verify_proof: lookup.read_committed_log_derivative(transcript)
VerifierReadCommittedLogDerivative ==
    /\ verifier.state = "CommittedWitness"
    /\ verifier' = AfterRead(CommittedWitness_read_committed_log_derivative(
                                 verifier.value, transcript, verifier.pos),
                             "read_committed_log_derivative")
    /\ UNCHANGED <<env, prover, transcript, batcherVars>>

\* verify_proof: lookup.evaluate(transcript)
VerifierEvaluate ==
    /\ verifier.state = "CommittedLogDerivative"
    /\ verifier' = AfterRead(CommittedLogDerivative_evaluate(
                                 verifier.value, transcript, verifier.pos),
                             "evaluate")
    /\ UNCHANGED <<env, prover, transcript, batcherVars>>

\* verify_proof: p.register_pairings(vk, params, &mut pairing_batcher, beta)
VerifierRegisterPairings ==
    /\ verifier.state = "Evaluated"
    /\ "register_pairings" \notin Range(verifier.done)
    /\ alive
    /\ ~panicked
    /\ LET slices == Evaluated_register_pairings(verifier.value, env.vk, env.params,
                                                 env.beta)
       IN  /\ batcher' = AddPairings(batcher, slices)
           /\ calls' = calls \o slices
    /\ verifier' = [verifier EXCEPT !.done = Append(verifier.done, "register_pairings")]
    /\ UNCHANGED <<alive, returned, panicked, finalize_calls, env, prover, transcript>>

\* verify_proof: p.queries(vk, x)
VerifierQueries ==
    /\ verifier.state = "Evaluated"
    /\ verifier.queries = <<>>
    /\ verifier' = [verifier EXCEPT !.queries = Evaluated_queries(verifier.value, env.x),
                                    !.done = Append(verifier.done, "queries")]
    /\ UNCHANGED <<env, prover, transcript, batcherVars>>

\* the test: batcher.finalize() on the batcher verify_proof returned
LookupFinalize ==
    /\ "register_pairings" \in Range(verifier.done)
    /\ Finalize
    /\ UNCHANGED lookupVars

NextLookup ==
    \/ ProverCommit
    \/ ProverCommitLogDerivatives
    \/ ProverEvaluate
    \/ VerifierReadCommitted
    \/ VerifierReadCommittedLogDerivative
    \/ VerifierEvaluate
    \/ VerifierRegisterPairings
    \/ VerifierQueries
    \/ LookupFinalize

SpecLookup == InitLookup /\ [][NextLookup]_vars

(***************************************************************************)
(* Properties of the lookup pipeline                                       *)
(***************************************************************************)
\* the witness puts, at every usable row, the values of one common table row
HonestWitness ==
    \A row \in 0..(UsableRows(env.params.n) - 1) :
        \E i \in DOMAIN TableRows[env.table_ids[1]] :
            \A c \in DOMAIN env.table_ids :
                env.advice[c][row] = TableRows[env.table_ids[c]][i]

\* the whole pipeline has run: the pairs finalize returned are the lookup's
PipelineDone ==
    /\ prover.stage = "evaluated"
    /\ "register_pairings" \in Range(verifier.done)
    /\ finalize_calls = 1

\* a lookup into the single table whose rows are in ascending order
SingleAscendingTable == env.table_ids = <<"table">>

SingleTableCompleteness ==
    (PipelineDone /\ HonestWitness /\ SingleAscendingTable)
        => MultiPairing(returned) = GtIdentity

\* C1: completeness of the pipeline.  For every witness that puts, at every
\* usable row, the values of one common row of the referenced tables (one table
\* or several), once the prover has run commit, commit_log_derivatives and
\* evaluate, the verifier has read the proof and registered its pairings, and the
\* batcher was finalized, the returned pairs multiply to the identity.
C1_PipelineCompleteness ==
    (PipelineDone /\ HonestWitness) => MultiPairing(returned) = GtIdentity

VerifierOrder ==
    <<"Uncommitted", "CommittedWitness", "CommittedLogDerivative", "Evaluated">>

ReadOps == <<"read_committed", "read_committed_log_derivative", "evaluate">>

\* how often an operation was executed
Times(done, op) == Cardinality({i \in DOMAIN done : done[i] = op})

\* C8: the verifier state only moves one step forward along Uncommitted ->
\* CommittedWitness -> CommittedLogDerivative -> Evaluated (a failed read drops
\* the state), Evaluated is entered with read_committed,
\* read_committed_log_derivative, evaluate executed once each in this order,
\* and register_pairings and queries are executed in Evaluated only.
C8_VerifierStateOrder ==
    [][ /\ verifier'.state # verifier.state =>
             \/ verifier'.state = "Err"
             \/ \E i \in 1..3 : /\ verifier.state = VerifierOrder[i]
                                /\ verifier'.state = VerifierOrder[i + 1]
        /\ verifier'.state = "Evaluated" =>
             /\ Len(verifier'.done) >= 3
             /\ SubSeq(verifier'.done, 1, 3) = ReadOps
             /\ \A i \in 1..3 : Times(verifier'.done, ReadOps[i]) = 1
        /\ verifier'.done # verifier.done =>
             (verifier'.done[Len(verifier'.done)] \in {"register_pairings", "queries"}
                 => verifier.state = "Evaluated")
      ]_vars

C8_Witness ==
    /\ verifier.state = "Evaluated"
    /\ "register_pairings" \in Range(verifier.done)
    /\ "queries" \in Range(verifier.done)

\* the values the verifier holds in Evaluated, in the order it read them
EvaluatedValues(e) ==
    << e.committed.committed_witness.f, e.committed.committed_witness.m,
       e.committed.a, e.committed.qa, e.committed.a0, e.committed.b0, e.committed.p,
       e.b0_eval, e.f_eval, e.a_at_zero >>

\* C9: what the verifier has read so far is, item by item, what the prover
\* wrote at the same place, of the same kind (7 points, then 3 scalars); in
\* Evaluated it has read all of f, m, a, qa, a0, b0, p, b0_eval, f_eval,
\* a_at_zero, nothing else is left, and each field holds the prover's value.
C9_ReadsWhatWasWritten ==
    /\ verifier.pos = Len(verifier.read)
    /\ verifier.pos <= Len(transcript)
    /\ \A i \in DOMAIN verifier.read :
          /\ transcript[i].item = verifier.read[i]
          /\ transcript[i].kind = IF i <= 7 THEN "point" ELSE "scalar"
    /\ verifier.state = "Evaluated" =>
          /\ verifier.read = << "f", "m", "a", "qa", "a0", "b0", "p",
                                "b0_eval", "f_eval", "a_at_zero" >>
          /\ verifier.pos = Len(transcript)
          /\ EvaluatedValues(verifier.value) = [i \in 1..10 |-> transcript[i].v]

C9_Witness ==
    /\ verifier.state = "Evaluated"
    /\ verifier.pos = 10
    /\ transcript[3].v # transcript[4].v

\* C10: register_pairings makes three add_pairing calls, of 3, 2 and 2 pairs.
C10_ThreeAddPairingCalls ==
    "register_pairings" \in Range(verifier.done) =>
        [i \in DOMAIN calls |-> Len(calls[i])] = <<3, 2, 2>>

(***************************************************************************)
(* The verifier's expressions                                              *)
(***************************************************************************)
\* keygen: l_0, l_blind and l_last as polynomials, evaluated at a point
LagrangeIndicator(rows, k) ==
    Ifft(Vec([i \in 0..(Pow2(k) - 1) |-> IF i \in rows THEN 1 ELSE 0]), k)

l_0_eval(e) == eval_polynomial(LagrangeIndicator({0}, e.params.k), e.x)

l_blind_eval(e) ==
    eval_polynomial(
        LagrangeIndicator({i \in 0..(e.params.n - 1) : i >= e.params.n - e.blinding_factors},
                          e.params.k), e.x)

l_last_eval(e) ==
    eval_polynomial(LagrangeIndicator({e.params.n - e.blinding_factors - 1}, e.params.k),
                    e.x)

\* Evaluated::expressions: the body is commented out, iter::empty() is returned
Evaluated_expressions(self, l_0, l_last, l_blind, theta, beta) == <<>>

\* verify_proof: p.expressions(l_0, l_last, l_blind, argument, theta, beta, ...)
VerifierExpressions ==
    /\ verifier.state = "Evaluated"
    /\ ~verifier.expressions.called
    /\ verifier' = [verifier EXCEPT
            !.expressions = [ called |-> TRUE,
                              result |-> Evaluated_expressions(
                                             verifier.value, l_0_eval(env), l_last_eval(env),
                                             l_blind_eval(env), env.theta, env.beta) ],
            !.done = Append(verifier.done, "expressions")]
    /\ UNCHANGED <<env, prover, transcript, batcherVars>>

\* one proof up to the verifier's expressions, without the pairing batcher
NextProof ==
    \/ ProverCommit
    \/ ProverCommitLogDerivatives
    \/ ProverEvaluate
    \/ VerifierReadCommitted
    \/ VerifierReadCommittedLogDerivative
    \/ VerifierEvaluate
    \/ VerifierExpressions

SpecProof == InitLookup /\ [][NextProof]_vars

\* the residual of the claim, from the values the verifier holds
ClaimedResidual(self, e) ==
    LET n == e.params.n % P
        table_size == e.vk.static_table_mapping[e.table_ids[1]].size % P
        b_at_zero == FMul(FAdd(FMul(self.a_at_zero, table_size),
                               FMul(FAdd(e.blinding_factors % P, 1), FInv(e.beta))),
                          FInv(n))
        b_eval == FAdd(FMul(self.b0_eval, e.x), b_at_zero)
        active_rows == FSub(1, FAdd(l_last_eval(e), l_blind_eval(e)))
    IN  FSub(FMul(b_eval, FAdd(FMul(active_rows, self.f_eval), e.beta)), 1)

\* C11: expressions returns one scalar, the residual
\* b_eval (active_rows f_eval + beta) - 1 with b_eval = b0_eval x + b_at_zero and
\* b_at_zero recovered from a_at_zero, and for an honest proof it is zero.
C11_ExpressionsResidual ==
    verifier.expressions.called =>
        /\ verifier.expressions.result = <<ClaimedResidual(verifier.value, env)>>
        /\ ClaimedResidual(verifier.value, env) = 0

(***************************************************************************)
(* Properties of the lookup prover                                         *)
(***************************************************************************)
CommitSucceeded == prover.stage \in {"committed", "log_derivative", "evaluated"}

\* the sum of the multiplicities, in the scalar field
SumMultiplicities(m_sparse) ==
    VSum([j \in 0..(Cardinality(DOMAIN m_sparse) - 1) |->
             m_sparse[SortedKeys(DOMAIN m_sparse)[j + 1]]])

\* C12: after a successful commit the multiplicities of m_sparse sum to the
\* number of usable rows n - (blinding_factors + 1), and they count exactly the
\* usable rows of the witness: the blinding rows below them are not looked up.
C12_MultiplicityConservation ==
    CommitSucceeded =>
        /\ SumMultiplicities(prover.m_sparse)
               = (env.params.n - (env.blinding_factors + 1)) % P
        /\ \A index \in DOMAIN prover.m_sparse :
              prover.m_sparse[index] =
                  Cardinality({row \in 0..(env.params.n - (env.blinding_factors + 1) - 1) :
                      env.advice[1][row]
                          = env.pk.static_table_mapping[env.table_ids[1]].values[index]}) % P

\* two usable rows look up the same table row, and the blinding rows hold a
\* value that is in no table row
C12_Witness ==
    /\ CommitSucceeded
    /\ \E index \in DOMAIN prover.m_sparse : prover.m_sparse[index] = 2
    /\ \A index \in DOMAIN TableRows[env.table_ids[1]] :
          env.advice[1][env.params.n - 1] # TableRows[env.table_ids[1]][index]

\* the witness cell by cell, against the tables of the proving key
UsableRowSet == 0..(env.params.n - (env.blinding_factors + 1) - 1)
TableOf(c) == env.pk.static_table_mapping[env.table_ids[c]]
Present(row, c) == env.advice[c][row] \in DOMAIN TableOf(c).value_index_mapping
IndexOf(row, c) == TableOf(c).value_index_mapping[env.advice[c][row]]

\* column c is where the loop stops at this row, if it gets there
BadColumn(row, c) ==
    \/ ~Present(row, c)
    \/ c > 1 /\ Present(row, 1) /\ IndexOf(row, c) # IndexOf(row, 1)

BadRows == {row \in UsableRowSet : \E c \in DOMAIN env.table_ids : BadColumn(row, c)}
FirstBadRow == CHOOSE row \in BadRows : \A r \in BadRows : row <= r
FirstBadColumn ==
    CHOOSE c \in DOMAIN env.table_ids :
        /\ BadColumn(FirstBadRow, c)
        /\ \A d \in DOMAIN env.table_ids : BadColumn(FirstBadRow, d) => c <= d

CommitAttempted == prover.stage # "start"

\* C13: when some lookup column holds, at a usable row, a value that is no key
\* of its table's value_index_mapping, commit fails and the transcript holds
\* nothing of this lookup; it fails with LookupValueNotFound when that cell is
\* the first one the row loop cannot resolve.
C13_LookupValueNotFound ==
    (CommitAttempted /\ \E row \in UsableRowSet, c \in DOMAIN env.table_ids :
                            ~Present(row, c)) =>
        /\ prover.stage = "failed"
        /\ transcript = <<>>
        /\ ~Present(FirstBadRow, FirstBadColumn) => prover.err = "LookupValueNotFound"

C13_Witness ==
    /\ prover.stage = "failed"
    /\ prover.err = "LookupValueNotFound"
    /\ Len(env.table_ids) = 2
    /\ Present(FirstBadRow, 1)
    /\ FirstBadRow = 1

\* C14: commit succeeds only if at every usable row all lookup columns resolve
\* to one row index of their tables; when at some row two columns resolve to
\* different indices, commit fails and nothing is written, with
\* InconsistentVectorLookup when that is the first cell the loop cannot resolve.
C14_InconsistentVectorLookup ==
    /\ CommitSucceeded =>
          \A row \in UsableRowSet : \A c \in DOMAIN env.table_ids :
              Present(row, c) /\ IndexOf(row, c) = IndexOf(row, 1)
    /\ (CommitAttempted /\ \E row \in UsableRowSet : \E c, d \in DOMAIN env.table_ids :
              Present(row, c) /\ Present(row, d) /\ IndexOf(row, c) # IndexOf(row, d)) =>
          /\ prover.stage = "failed"
          /\ transcript = <<>>
          /\ Present(FirstBadRow, FirstBadColumn) =>
                prover.err = "InconsistentVectorLookup"

C14_Witness ==
    /\ prover.stage = "failed"
    /\ prover.err = "InconsistentVectorLookup"
    /\ FirstBadRow = 1
    /\ transcript = <<>>

(***************************************************************************)
(* Building a static table from arbitrary values                           *)
(***************************************************************************)
MaxTableLen == 4

\* the values a table row may hold
TableValueSet == 0..3

\* the SRS the tables are built over: 8 powers of the secret 3
TableSrsG1 == SRS_setup(7, 8, 3).g1

InitTable ==
    /\ \E len \in 0..MaxTableLen : \E rows \in [1..len -> TableValueSet] :
          \E overflow_checks \in BOOLEAN :
             env = [ stage |-> "values",
                     values |-> ToVec(rows),
                     overflow_checks |-> overflow_checks ]
    /\ batcher = NewBatcher(1)
    /\ alive = TRUE
    /\ returned = <<>>
    /\ panicked = FALSE
    /\ calls = <<>>
    /\ finalize_calls = 0
    /\ prover = Idle
    /\ transcript = <<>>
    /\ verifier = Idle

\* the numbers of worker threads a run may have
Threads == {1, 2, 3}

\* generate_table: StaticTableValues::new(&table_values, &params.g1())
TableNew ==
    /\ env.stage = "values"
    /\ \E threads \in Threads :
          env' = [ stage |-> "new",
                   values |-> env.values,
                   overflow_checks |-> env.overflow_checks,
                   is_pow_2 |-> is_pow_2(VLen(env.values), env.overflow_checks),
                   log2 |-> log2_word(VLen(env.values), env.overflow_checks),
                   table |-> StaticTableValues_new_on(env.values, TableSrsG1,
                                                      env.overflow_checks, threads) ]
    /\ UNCHANGED <<prover, transcript, verifier, batcherVars>>

\* a second run of StaticTableValues::new on the same values and the same SRS
TableNewAgain ==
    /\ env.stage = "new"
    /\ \E threads \in Threads :
          env' = [ stage |-> "again",
                   values |-> env.values,
                   overflow_checks |-> env.overflow_checks,
                   is_pow_2 |-> env.is_pow_2,
                   log2 |-> env.log2,
                   table |-> env.table,
                   again |-> StaticTableValues_new_on(env.values, TableSrsG1,
                                                      env.overflow_checks, threads) ]
    /\ UNCHANGED <<prover, transcript, verifier, batcherVars>>

\* the SRS generate_table passes to commit: params.g1().len(), params.g2()
\* (9 powers of the secret in G2), and the circuit domain sizes 2^0 .. 2^4
TableSrsG2 == SRS_setup(7, 8, 3).g2
SrsG1Lens == 1..8
CircuitDomains == {1, 2, 4, 8, 16}

\* generate_table: table.commit(params.g1().len(), params.g2(), circuit_domain)
TableCommit ==
    /\ env.stage = "new"
    /\ env.table.ok
    /\ \E srs_g1_len \in SrsG1Lens, circuit_domain \in CircuitDomains :
          env' = [ stage |-> "commit",
                   values |-> env.values,
                   overflow_checks |-> env.overflow_checks,
                   is_pow_2 |-> env.is_pow_2,
                   log2 |-> env.log2,
                   table |-> env.table,
                   srs_g1_len |-> srs_g1_len,
                   circuit_domain |-> circuit_domain,
                   b0_bound_index |-> B0BoundIndex(srs_g1_len, circuit_domain,
                                                   env.overflow_checks),
                   committed |-> StaticTableValues_commit(env.table, srs_g1_len, TableSrsG2,
                                                          circuit_domain,
                                                          env.overflow_checks) ]
    /\ UNCHANGED <<prover, transcript, verifier, batcherVars>>

NextTable ==
    \/ TableNew
    \/ TableNewAgain
    \/ TableCommit

SpecTable == InitTable /\ [][NextTable]_vars

HasDuplicate(values) ==
    \E i, j \in DOMAIN values : i # j /\ values[i] = values[j]

IsPowerOfTwo(len) == \E k \in 0..(WordBits - 1) : len = Pow2(k)

C16_PowerOfTwoLength ==
    env.stage = "new" =>
        /\ ~env.is_pow_2.overflow
        /\ ~env.is_pow_2.panic
        /\ env.is_pow_2.value <=> IsPowerOfTwo(VLen(env.values))
        /\ ~IsPowerOfTwo(VLen(env.values)) => ~env.table.ok
        /\ env.is_pow_2.value =>
              /\ ~env.log2.overflow
              /\ env.log2.value < WordBits
              /\ Pow2(env.log2.value) = VLen(env.values)

\* C17: after a successful new, values and qs have size entries and
\* value_index_mapping maps the table's values one-to-one onto 0..size-1, each
\* value to its row.
C17_MappingBijection ==
    (env.stage = "new" /\ env.table.ok) =>
        LET tab == env.table
        IN  /\ tab.size = VLen(env.values)
            /\ DOMAIN tab.values = 0..(tab.size - 1)
            /\ DOMAIN tab.qs = 0..(tab.size - 1)
            /\ DOMAIN tab.value_index_mapping = {tab.values[i] : i \in DOMAIN tab.values}
            /\ Range(tab.value_index_mapping) = 0..(tab.size - 1)
            /\ \A u, v \in DOMAIN tab.value_index_mapping :
                  tab.value_index_mapping[u] = tab.value_index_mapping[v] => u = v
            /\ \A i \in DOMAIN tab.values : tab.value_index_mapping[tab.values[i]] = i

C17_Witness ==
    /\ env.stage = "new"
    /\ env.table.ok
    /\ env.table.size = 4
    /\ env.table.values[0] > env.table.values[1]

LogDerivativeCommitted == prover.stage \in {"log_derivative", "evaluated"}

InitTamper ==
    /\ \E ids \in TableIdLists, beta \in Betas \ {0}, challenge \in BatchChallenges :
          \E rows \in [0..(UsableRows(Pow2(K)) - 1) -> WitnessRows] :
             /\ env = Setup(3, ids,
                            [r \in 0..(UsableRows(Pow2(K)) - 1) |->
                                [c \in DOMAIN ids |-> TableRows[ids[c]][rows[r]]]],
                            9, 2, beta, 6, challenge)
             /\ batcher = NewBatcher(challenge)
    /\ alive = TRUE
    /\ returned = <<>>
    /\ panicked = FALSE
    /\ calls = <<>>
    /\ finalize_calls = 0
    /\ prover = [stage |-> "start"]
    /\ transcript = <<>>
    /\ verifier = [ state |-> "Uncommitted", value |-> <<>>, pos |-> 0,
                    read |-> <<>>, done |-> <<>>, queries |-> <<>>,
                    expressions |-> [called |-> FALSE, result |-> <<>>] ]

\* the multiplicities an honest commit stores for this witness
HonestMultiplicities == Argument_commit(env).m_sparse

\* the finished proof with the multiplicity of one m_sparse entry changed, and
\* with it the commitment m (the second point of the proof); all else is kept
TamperMultiplicity ==
    /\ ProofComplete
    /\ verifier.state = "Uncommitted"
    /\ prover.m_sparse = HonestMultiplicities
    /\ \E index \in DOMAIN prover.m_sparse : \E v \in Fp \ {prover.m_sparse[index]} :
          LET table_config ==
                  env.pk.static_table_configs[TableOf(1).size]
              delta == FSub(v, prover.m_sparse[index])
          IN  /\ prover' = [prover EXCEPT !.m_sparse[index] = v]
              /\ transcript' =
                     [transcript EXCEPT
                         ![2].v = FAdd(@, FMul(table_config.g1_lagrange[index], delta))]
    /\ UNCHANGED <<env, verifier, batcherVars>>

NextTamper ==
    \/ ProverCommit
    \/ ProverCommitLogDerivatives
    \/ ProverEvaluate
    \/ TamperMultiplicity
    \/ VerifierReadCommitted
    \/ VerifierReadCommittedLogDerivative
    \/ VerifierEvaluate
    \/ VerifierRegisterPairings
    \/ LookupFinalize

SpecTamper == InitTamper /\ [][NextTamper]_vars

Tampered == ProofComplete /\ prover.m_sparse # HonestMultiplicities

\* C19: when the multiplicity of one m_sparse entry, and with it the commitment
\* m, was changed and every other prover message is the honest one, the pairs
\* returned by finalize do not multiply to the identity.
C19_TamperedMultiplicityRejected ==
    (PipelineDone /\ Tampered) => MultiPairing(returned) # GtIdentity

\* the same, for lookups into the single table with ascending rows
TamperedSingleTableRejected ==
    (PipelineDone /\ Tampered /\ SingleAscendingTable)
        => MultiPairing(returned) # GtIdentity

(***************************************************************************)
(* The order of the statements and the order of the emitted pairs          *)
(***************************************************************************)
\* the statements of the history in another order
Reorderings(stmts) ==
    {[i \in DOMAIN stmts |-> stmts[p[i]]] :
        p \in {q \in [DOMAIN stmts -> DOMAIN stmts] :
                  \A i, j \in DOMAIN stmts : i # j => q[i] # q[j]}}

\* the pairs finalize emits when the map is iterated in order o
Emitted(b, o) ==
    [i \in DOMAIN o |-> <<to_affine(b.g2_to_g1[o[i]]), to_affine(b.g2_to_g2[o[i]])>>]

\* every iteration order of the map gives pairs with the same product
FinalizeOrderIndependent ==
    finalize_calls > 0 =>
        \A o \in Orders(DOMAIN batcher.g2_to_g1) :
            MultiPairing(Emitted(batcher, o)) = MultiPairing(returned)

\* every order of the add_pairing calls gives the same accept/reject outcome
AddOrderIndependent ==
    finalize_calls > 0 =>
        \A stmts \in Reorderings(calls) :
            BatchAccepts(batcher.challenge, stmts) <=> (MultiPairing(returned) = GtIdentity)

\* C20: for a fixed challenge and a fixed collection of statements, whether the
\* finalized batch pairs to the identity depends neither on the order of the
\* add_pairing calls nor on the order in which finalize iterates the map.
C20_OrderIndependence ==
    /\ AddOrderIndependent
    /\ FinalizeOrderIndependent

(***************************************************************************)
(* Key generation for a circuit whose lookup may name tables that were     *)
(* not registered, or tables of different sizes                            *)
(***************************************************************************)
\* the tables a circuit may register: those of the tests and one of 4 rows
KeygenTableRows == ("table_small" :> ToVec(<<0, 1, 6, 8>>)) @@ TableRows

\* the table ids a lookup of the circuit names, one per column
KeygenIdLists ==
    { <<"table">>, <<"table", "table_2">>, <<"table", "table_small">>,
      <<"table_small", "table">>, <<"table_small">> }

\* keygen_pk: the opened part of every registered table goes into the key;
\* the table ids of the lookups are not looked at
keygen_pk(params, static_table_configs, b0_g1_bound, vk, registered) ==
    [ ok |-> TRUE,
      pk |-> [ static_table_mapping |-> [id \in DOMAIN registered |-> registered[id].opened],
               static_table_configs |-> static_table_configs,
               b0_g1_bound |-> b0_g1_bound ] ]

\* keygen_vk: the committed part of every registered table
keygen_vk(params, registered) ==
    [ ok |-> TRUE,
      vk |-> [ static_table_mapping |->
                  [id \in DOMAIN registered |-> registered[id].committed] ] ]

\* the circuit before its keys are built
Circuit(ids, registered_ids, rows, challenge) ==
    [ stage |-> "circuit", table_ids |-> ids, registered |-> registered_ids,
      rows |-> rows, challenge |-> challenge ]

InitKeygen ==
    /\ \E ids \in KeygenIdLists, registered_ids \in SUBSET (DOMAIN KeygenTableRows),
          rows \in [0..(UsableRows(Pow2(K)) - 1) -> {0, 2}] :
          env = Circuit(ids, registered_ids, rows, 2)
    /\ batcher = NewBatcher(2)
    /\ alive = TRUE
    /\ returned = <<>>
    /\ panicked = FALSE
    /\ calls = <<>>
    /\ finalize_calls = 0
    /\ prover = [stage |-> "start"]
    /\ transcript = <<>>
    /\ verifier = [ state |-> "Uncommitted", value |-> <<>>, pos |-> 0,
                    read |-> <<>>, done |-> <<>>, queries |-> <<>>,
                    expressions |-> [called |-> FALSE, result |-> <<>>] ]

\* TableSRS and ParamsKZG setup, generate_table for the registered tables,
\* StaticTableConfig::new for both table sizes, keygen_vk, keygen_pk
Keygen ==
    /\ env.stage = "circuit"
    /\ LET n == Pow2(K)
           table_srs == SRS_setup(7, 8, 3)
           small_srs == SRS_setup(3, 4, 3)
           params == ParamsKZG_setup(K, 3)
           registered ==
               [id \in env.registered |->
                   LET opened == StaticTableValues_new(KeygenTableRows[id], table_srs.g1, TRUE)
                   IN  [ opened |-> opened,
                         committed |-> StaticTableValues_commit(opened, VLen(table_srs.g1),
                                                                table_srs.g2, n, TRUE) ]]
           configs == (8 :> [ size |-> 8,
                              g1_lagrange |-> table_srs.g1_lagrange,
                              g_lagrange_opening_at_0 |-> table_srs.g_lagrange_minus_lagrange_0 ])
                      @@ (4 :> [ size |-> 4,
                                 g1_lagrange |-> small_srs.g1_lagrange,
                                 g_lagrange_opening_at_0 |->
                                     small_srs.g_lagrange_minus_lagrange_0 ])
           b0_g1_bound == [j \in 0..(VLen(table_srs.g1) - (n + 1) - 1) |-> table_srs.g1[n + 1 + j]]
           vk == keygen_vk(params, registered)
           pk == keygen_pk(params, configs, b0_g1_bound, vk.vk, registered)
           cells == [r \in DOMAIN env.rows |->
                        [c \in DOMAIN env.table_ids |->
                            KeygenTableRows[env.table_ids[c]][env.rows[r]]]]
       IN  env' = [ stage |-> "ready",
                    keygen |-> [ok |-> vk.ok /\ pk.ok],
                    params |-> params,
                    table_ids |-> env.table_ids,
                    registered |-> env.registered,
                    advice |-> AdviceColumns(env.table_ids, cells, 9, n),
                    blinding_factors |-> BlindingFactors,
                    pk |-> pk.pk,
                    vk |-> vk.vk,
                    theta |-> 2, beta |-> 1, x |-> 6,
                    challenge |-> env.challenge ]
    /\ UNCHANGED <<prover, transcript, verifier, batcherVars>>

\* create_proof runs with the key keygen_pk returned
CreateProofCommit ==
    /\ env.stage = "ready"
    /\ env.keygen.ok
    /\ ProverCommit

NextKeygen ==
    \/ Keygen
    \/ CreateProofCommit

SpecKeygen == InitKeygen /\ [][NextKeygen]_vars

\* the lookup names a table that was never registered
UnregisteredTable == \E c \in DOMAIN env.table_ids : env.table_ids[c] \notin env.registered

\* the lookup names registered tables of different sizes
MismatchedSizes ==
    /\ ~UnregisteredTable
    /\ \E c, d \in DOMAIN env.table_ids :
          VLen(KeygenTableRows[env.table_ids[c]]) # VLen(KeygenTableRows[env.table_ids[d]])

ConfigurationErrors == {"Key not exists", "Tables should all be of the same size"}

\* C21: a lookup that names an unregistered table, or tables of different
\* sizes, is reported when the keys are built: key generation fails for it,
\* and the prover's commit never is the step that reports it.
C21_ConfigErrorsAtKeygen ==
    /\ (env.stage = "ready" /\ (UnregisteredTable \/ MismatchedSizes)) => ~env.keygen.ok
    /\ (prover.stage = "failed") => prover.err \notin ConfigurationErrors

(***************************************************************************)
(* Claims on StaticTableValues::commit                                     *)
(***************************************************************************)
Committed == env.stage = "commit"

\* C22: commit returns x_b0_bound = srs_g2[srs_g1_len - 1 - (circuit_domain - 2)]
\* and zv = srs_g2[size] - srs_g2[0]; for every circuit domain size and every
\* srs_g1_len no subtraction of the index computation underflows and both
\* indices lie inside srs_g2.
C22_CommitIndices ==
    Committed =>
        /\ ~env.b0_bound_index.overflow
        /\ env.srs_g1_len - 1 - (env.circuit_domain - 2) \in DOMAIN TableSrsG2
        /\ env.table.size \in DOMAIN TableSrsG2
        /\ env.committed.ok
        /\ env.committed.x_b0_bound
             = TableSrsG2[env.srs_g1_len - 1 - (env.circuit_domain - 2)]
        /\ env.committed.zv = FSub(TableSrsG2[env.table.size], TableSrsG2[0])

\* the same for the calls in which the circuit domain has at least 2 rows and
\* at most srs_g1_len + 1
CommitIndicesInRange ==
    (Committed /\ env.circuit_domain >= 2 /\ env.circuit_domain <= env.srs_g1_len + 1) =>
        /\ ~env.b0_bound_index.overflow
        /\ env.committed.ok
        /\ env.committed.x_b0_bound
             = TableSrsG2[env.srs_g1_len - 1 - (env.circuit_domain - 2)]
        /\ env.committed.zv = FSub(TableSrsG2[env.table.size], TableSrsG2[0])


CommitSucceededOnTable == Committed /\ env.committed.ok

\* C23: for a table with the single value v, v # 0, the t returned by commit
\* satisfies e(G1/v, t) = e(G1, G2): t commits in G2 to the constant polynomial v.
C23_SingleValueRoundTrip ==
    (CommitSucceededOnTable /\ VLen(env.values) = 1 /\ env.values[0] # 0) =>
        Pairing(FMul(TableSrsG1[0], FInv(env.values[0])), env.committed.t)
            = Pairing(TableSrsG1[0], TableSrsG2[0])

C23_Witness ==
    /\ CommitSucceededOnTable
    /\ VLen(env.values) = 1
    /\ env.values[0] = 3
    /\ env.committed.t = 3


CommitmentOfRows(table) ==
    Multiexp(Ifft(table.values, log2(table.size)), TableSrsG2, 0)

Ascending(values) ==
    \A i, j \in DOMAIN values : i < j => values[i] < values[j]

\* C25: the opened and the committed view of a table describe one polynomial:
\* for every table new accepts, in whatever order its values are, the t of
\* commit commits to the polynomial that takes values[i] at the i-th root of
\* the table domain for every row i.
C25_CommitMatchesRows ==
    CommitSucceededOnTable => env.committed.t = CommitmentOfRows(env.table)

\* the same for the tables whose rows are ascending
CommitMatchesAscendingRows ==
    (CommitSucceededOnTable /\ Ascending(env.values))
        => env.committed.t = CommitmentOfRows(env.table)

(***************************************************************************)
(* The log-derivative sums of the prover                                   *)
(***************************************************************************)
\* f on the circuit rows, before commit_log_derivatives turns it into coefficients
LookupF == IF prover.stage = "committed" THEN prover.f ELSE prover.f_lagrange

LookupTables == [c \in DOMAIN env.table_ids |-> TableOf(c)]

\* t_index: the theta-compression of the referenced tables' values at a row
CompressedTableValue(index) ==
    compress_tables(LookupTables, Len(LookupTables), env.theta, index).values

DenominatorsNonzero ==
    /\ \A index \in DOMAIN prover.m_sparse : FAdd(CompressedTableValue(index), env.beta) # 0
    /\ \A r \in UsableRowSet : FAdd(LookupF[r], env.beta) # 0

TableSideSum ==
    LET keys == SortedKeys(DOMAIN prover.m_sparse)
    IN  VSum([j \in 0..(Len(keys) - 1) |->
                FMul(prover.m_sparse[keys[j + 1]],
                     FInv(FAdd(CompressedTableValue(keys[j + 1]), env.beta)))])

WitnessSideSum ==
    VSum([r \in UsableRowSet |-> FInv(FAdd(LookupF[r], env.beta))])

\* C26: after a successful commit, with the same theta in commit and
\* commit_log_derivatives and a beta for which no denominator is zero, the sum
\* over m_sparse of multiplicity / (t_index + beta) equals the sum over the
\* usable rows of 1 / (f_r + beta); every t_index of m_sparse is a value of f,
\* and the sanity assertion of commit_log_derivatives never fires.
C26_LogDerivativeIdentity ==
    /\ (CommitSucceeded /\ DenominatorsNonzero) => TableSideSum = WitnessSideSum
    /\ CommitSucceeded =>
          \A index \in DOMAIN prover.m_sparse :
              CompressedTableValue(index) \in {LookupF[r] : r \in UsableRowSet}
    /\ prover.stage = "failed" => prover.err # "assert!(f_set.get(&table_values).is_some())"

\* a lookup over two tables into two different rows, past commit_log_derivatives
C26_Witness ==
    /\ LogDerivativeCommitted
    /\ Len(env.table_ids) = 2
    /\ Cardinality(DOMAIN prover.m_sparse) = 2
    /\ DenominatorsNonzero
    /\ TableSideSum # 0


\* sel_i: 1 on the usable rows, 0 on the blinding_factors + 1 rows below
RowSelector(i) == IF i \in UsableRowSet THEN 1 ELSE 0

\* C27: B has one evaluation per row of the circuit domain, 1/(f_i + beta) on
\* the usable rows and 1/beta on the other blinding_factors + 1 rows, so
\* B(w^i) (sel_i f_i + beta) = 1 at every row i; b0 is b without its constant
\* coefficient, shifted down by one: X b0(X) + b(0) = b(X), of degree at most n - 2.
C27_BAndB0 ==
    LogDerivativeCommitted =>
        LET n == env.params.n
            w == Omega(env.params.k)
        IN  /\ DOMAIN prover.b = 0..(n - 1)
            /\ \A i \in 0..(n - 1) :
                  /\ FMul(eval_polynomial(prover.b, FPow(w, i)),
                          FAdd(FMul(RowSelector(i), prover.f_lagrange[i]), env.beta)) = 1
                  /\ eval_polynomial(prover.b, FPow(w, i))
                       = IF i \in UsableRowSet
                         THEN FInv(FAdd(prover.f_lagrange[i], env.beta))
                         ELSE FInv(env.beta)
            /\ \A x \in Fp :
                  FAdd(FMul(x, eval_polynomial(prover.b0, x)), eval_polynomial(prover.b, 0))
                      = eval_polynomial(prover.b, x)
            /\ \A j \in DOMAIN prover.b0 : j > n - 2 => prover.b0[j] = 0

\* a proof whose B is not a constant and whose blinding rows differ from 0
C27_Witness ==
    /\ LogDerivativeCommitted
    /\ \E j \in 1..(env.params.n - 1) : prover.b[j] # 0
    /\ \E j \in DOMAIN prover.b0 : prover.b0[j] # 0
    /\ \E i \in 0..(env.params.n - 1) : i \notin UsableRowSet /\ prover.f_lagrange[i] # 0

(***************************************************************************)
(* create_proof: the challenges and the steps of the static lookups        *)
(***************************************************************************)
MaxInstances == 2
MaxStaticLookups == 3

\* what one step of a static lookup writes to the transcript
StepItems(step) ==
    CASE step = "commit" -> <<"f", "m">>
      [] step = "commit_log_derivatives" -> <<"a", "qa", "a0", "b0", "p">>
      [] step = "evaluate" -> <<"b0_eval", "f_eval", "a_at_zero">>
      [] OTHER -> <<step>>

Squeeze(name) ==
    [kind |-> "squeeze", step |-> name, instance |-> 0, lookup |-> 0, item |-> name]

Writes(step, instance, lookup) ==
    [k \in DOMAIN StepItems(step) |->
        [kind |-> "write", step |-> step, instance |-> instance, lookup |-> lookup,
         item |-> StepItems(step)[k]]]

\* the phases of create_proof that touch the transcript, from theta on
Phases ==
    << "theta", "commit", "beta", "gamma", "permutation", "commit_log_derivatives",
       "vanishing", "y", "h", "x", "evals", "evaluate", "done" >>

StaticSteps == {"commit", "commit_log_derivatives", "evaluate"}
Challenges == {"theta", "beta", "gamma", "y", "x"}

PhaseAfter(phase) ==
    Phases[1 + CHOOSE k \in 1..(Len(Phases) - 1) : Phases[k] = phase]

\* instance.iter().map(|..| static_lookups.iter().map(..).collect()).collect():
\* the step runs for every lookup of every instance before the phase ends
AdvanceAfterFirst(phase, at, total) ==
    [pc |-> PhaseAfter(phase), at |-> 1]

Advance(phase, at, total) ==
    IF at < total THEN [pc |-> phase, at |-> at + 1]
    ELSE [pc |-> PhaseAfter(phase), at |-> 1]

InitCreateProof ==
    /\ \E instances \in 1..MaxInstances, lookups \in 1..MaxStaticLookups :
          env = [stage |-> "create_proof", instances |-> instances, lookups |-> lookups]
    /\ prover = [pc |-> "theta", at |-> 1]
    /\ transcript = <<>>
    /\ batcher = NewBatcher(1)
    /\ alive = TRUE
    /\ returned = <<>>
    /\ panicked = FALSE
    /\ calls = <<>>
    /\ finalize_calls = 0
    /\ verifier = Idle

\* transcript.squeeze_challenge_scalar()
SqueezeChallenge ==
    /\ prover.pc \in Challenges
    /\ transcript' = Append(transcript, Squeeze(prover.pc))
    /\ prover' = [pc |-> PhaseAfter(prover.pc), at |-> 1]
    /\ UNCHANGED <<env, verifier, batcherVars>>

\* one static lookup of one instance runs its step and writes to the transcript
StaticLookupStep ==
    /\ prover.pc \in StaticSteps
    /\ LET total == env.instances * env.lookups
           instance == 1 + ((prover.at - 1) \div env.lookups)
           lookup == 1 + ((prover.at - 1) % env.lookups)
       IN  /\ transcript' = transcript \o Writes(prover.pc, instance, lookup)
           /\ prover' = Advance(prover.pc, prover.at, total)
    /\ UNCHANGED <<env, verifier, batcherVars>>

\* the step returns Err or panics: `?` leaves create_proof
StaticLookupStepFails ==
    /\ prover.pc \in StaticSteps
    /\ prover' = [pc |-> "failed", at |-> prover.at]
    /\ UNCHANGED <<env, transcript, verifier, batcherVars>>

\* the writes of the other arguments: permutation commit, vanishing commit,
\* h commitments, evaluations
OtherWrites ==
    /\ prover.pc \in {"permutation", "vanishing", "h", "evals"}
    /\ transcript' = transcript \o Writes(prover.pc, 0, 0)
    /\ prover' = [pc |-> PhaseAfter(prover.pc), at |-> 1]
    /\ UNCHANGED <<env, verifier, batcherVars>>

NextCreateProof ==
    \/ SqueezeChallenge
    \/ StaticLookupStep
    \/ StaticLookupStepFails
    \/ OtherWrites

SpecCreateProof == InitCreateProof /\ [][NextCreateProof]_vars

WritesOf(step) == {p \in DOMAIN transcript : transcript[p].step = step /\ transcript[p].kind = "write"}
SqueezesOf(name) == {p \in DOMAIN transcript : transcript[p] = Squeeze(name)}

Before(ps, qs) == \A p \in ps, q \in qs : p < q

\* the lookups (instance, lookup) a step has run for
RunFor(step) == {<<transcript[p].instance, transcript[p].lookup>> : p \in WritesOf(step)}

AllLookups == (1..env.instances) \X (1..env.lookups)

\* C28: in create_proof the writes of commit (f, m) of every static lookup come
\* after theta is squeezed and before beta is; those of commit_log_derivatives
\* after beta and before x; those of evaluate after x; and each of the three
\* steps has run for all static lookups before the next step starts for any.
C28_FiatShamirOrder ==
    /\ WritesOf("commit") # {} => SqueezesOf("theta") # {}
    /\ Before(SqueezesOf("theta"), WritesOf("commit"))
    /\ Before(WritesOf("commit"), SqueezesOf("beta"))
    /\ WritesOf("commit_log_derivatives") # {} => SqueezesOf("beta") # {}
    /\ Before(SqueezesOf("beta"), WritesOf("commit_log_derivatives"))
    /\ Before(WritesOf("commit_log_derivatives"), SqueezesOf("x"))
    /\ WritesOf("evaluate") # {} => SqueezesOf("x") # {}
    /\ Before(SqueezesOf("x"), WritesOf("evaluate"))
    /\ WritesOf("commit_log_derivatives") # {} => RunFor("commit") = AllLookups
    /\ WritesOf("evaluate") # {} => RunFor("commit_log_derivatives") = AllLookups
    /\ Before(WritesOf("commit"), WritesOf("commit_log_derivatives"))
    /\ Before(WritesOf("commit_log_derivatives"), WritesOf("evaluate"))
    /\ \A name \in Challenges : Cardinality(SqueezesOf(name)) <= 1

\* a finished proof of two instances with three static lookups each
C28_Witness ==
    /\ prover.pc = "done"
    /\ env.instances = 2
    /\ env.lookups = 3
    /\ RunFor("evaluate") = AllLookups
    /\ Cardinality(WritesOf("commit")) = 12


\* the table of static_lookup_e2e cut to its length: row i holds i, and the
\* second row is replaced by 0, so that rows 0 and 1 are equal
DuplicatedRowTable(values) ==
    /\ VLen(values) >= 2
    /\ IsPowerOfTwo(VLen(values))
    /\ \A i \in DOMAIN values : values[i] = IF i = 1 THEN 0 ELSE i

TableBuilt == env.stage \in {"new", "again", "commit"}

\* C29: a table whose rows 0 and 1 both hold 0 is accepted by
\* StaticTableValues::new and by commit, so that a witness of values of that
\* table can be proved and verified.
C29_DuplicatedRowAccepted ==
    (TableBuilt /\ DuplicatedRowTable(env.values)) =>
        /\ env.table.ok
        /\ (env.stage = "commit" /\ env.circuit_domain >= 2
              /\ env.circuit_domain <= env.srs_g1_len + 1) => env.committed.ok


\* C30: the size recorded in the StaticCommittedTable that commit returns is
\* the size of the table it was built from, the number of its rows, for every
\* srs_g1_len passed to commit.
C30_CommittedSize ==
    CommitSucceededOnTable => env.committed.size = env.table.size

\* the same for the calls in which srs_g1_len is the number of table rows
CommittedSizeWhenSrsFits ==
    (CommitSucceededOnTable /\ env.srs_g1_len = VLen(env.values))
        => env.committed.size = env.table.size

====
